---- MODULE Spec2Model ----
(***************************************************************************)
(* Model of ore-cli's mining loop and its two core subsystems:             *)
(*   - Miner::mine (src/ore-cli/src/mine.rs), the loop of rounds, checked  *)
(*     under MineSpec;                                                     *)
(*   - Miner::find_next_hash_par (src/ore-cli/src/mine.rs), the parallel   *)
(*     nonce search, checked under SearchSpec;                             *)
(*   - Miner::send_and_confirm with simulate_transaction,                  *)
(*     submit_transaction and confirm_transaction                          *)
(*     (src/ore-cli/src/send_and_confirm.rs), checked under PipelineSpec.  *)
(***************************************************************************)
EXTENDS Integers, Sequences, FiniteSets, TLC

VARIABLES
    \* ---- find_next_hash_par ----
    threads,          \* parameter `threads`
    difficulty,       \* parameter `difficulty`
    digestOf,         \* nonce |-> hashv(hash, pubkey, nonce.to_le_bytes()) for this round
    overflow_checks,  \* build profile: TRUE = `nonce += 1` panics on overflow, FALSE = wraps
    found_solution,   \* Arc<AtomicBool>; one location, so every load reads the latest store
    solution,         \* Arc<Mutex<(KeccakHash, u64)>>
    wpc,              \* position of every worker closure
    nonce,            \* `nonce` of every worker
    next_hash,        \* `next_hash` of every worker
    mainPc,           \* position of the calling thread inside find_next_hash_par
    spawned,          \* number of workers spawned so far by the (0..threads).map
    joined,           \* number of handles joined so far
    result,           \* the value returned (copied from the slot)
    writers,          \* history: workers in the order they acquired the result lock
    hashed,           \* history: the nonces every worker has hashed
    incs,             \* history: number of `nonce += 1` of every worker, counted up to NonceMax + 1
    \* ---- send_and_confirm ----
    ppc,              \* position of send_and_confirm
    dynamic_cus,      \* parameter `dynamic_cus`
    skip_confirm,     \* parameter `skip_confirm`
    balance,          \* balance.value as read, -1 before the read or when the read failed
    instructions,     \* tx.message.instructions
    sim_attempts,     \* `sim_attempts` of simulate_transaction (0 at the call: a fresh counter)
    attempts,         \* `attempts` of submit_transaction
    confirm_attempts, \* `attempts` of confirm_transaction
    sent_sig,         \* signature returned by the successful send, "none" before
    outcome,          \* the ClientResult returned to the caller, "none" while running
    outcome_sig,      \* the Signature inside Ok(..)
    sim_calls,        \* history: number of simulate calls issued
    sim_fails,        \* history: number of simulate calls that failed (execution or transport)
    sim_exec_errs,    \* history: number of simulate calls that reported an execution error
    send_calls,       \* history: number of send calls issued
    send_errs,        \* history: number of send calls that failed
    poll_log,         \* history: results of the status polls, in order
    sim_units,        \* history: units_consumed of the successful simulation, -1 if none
    \* ---- mine ----
    minePc,                  \* position of Miner::mine
    searches_in_progress,    \* history: calls of find_next_hash_par that have not returned
    submissions_in_progress, \* history: submissions issued whose result has not come back
    solutions_pending,       \* history: solutions found whose submission has no result yet
    reported,                \* the line printed for the latest submission, "none" before
    blockhash_failed         \* history: get_latest_blockhash returned Err

searchVars == <<threads, difficulty, digestOf, overflow_checks, found_solution, solution,
                wpc, nonce, next_hash, mainPc, spawned, joined, result, writers,
                hashed, incs>>

pipelineVars == <<ppc, dynamic_cus, skip_confirm, balance, instructions, sim_attempts,
                  attempts, confirm_attempts, sent_sig, outcome, outcome_sig,
                  sim_calls, sim_fails, sim_exec_errs, send_calls, send_errs, poll_log,
                  sim_units>>

mineVars == <<minePc, searches_in_progress, submissions_in_progress, solutions_pending,
              reported, blockhash_failed>>

vars == <<searchVars, pipelineVars, mineVars>>

(***************************************************************************)
(* Bounds of the model.                                                    *)
(***************************************************************************)
\* Stands for u64::MAX: the nonce is an unsigned integer in 0..NonceMax.
NonceMax == 3
\* Stands for the 10_000 of `nonce % 10_000 == 0`: the flag is read every CheckInterval nonces.
CheckInterval == 2
\* Largest `threads` argument explored.
MaxThreads == 2

\* Stands for the 32 bytes of a KeccakHash ([0; 32]): a digest is DigestLen bytes long.
DigestLen == 2

Nonce == 0 .. NonceMax
Workers == 0 .. (MaxThreads - 1)

Min(a, b) == IF a <= b THEN a ELSE b

(***************************************************************************)
(* Digests.  A KeccakHash is an array of DigestLen bytes.  The hash        *)
(* function ranges over three sample digests: all zero (the slot's         *)
(* placeholder value), only the last byte set (numerically small) and only *)
(* the first byte set (numerically large).                                 *)
(***************************************************************************)
ZeroDigest == [k \in 1 .. DigestLen |-> 0]
LowDigest == [k \in 1 .. DigestLen |-> IF k = DigestLen THEN 1 ELSE 0]
HighDigest == [k \in 1 .. DigestLen |-> IF k = 1 THEN 1 ELSE 0]
DigestSamples == {ZeroDigest, LowDigest, HighDigest}

\* KeccakHash::le: the derived ordering of [u8; 32], lexicographic from index 0.
RECURSIVE LexLe(_, _, _)
LexLe(a, b, k) ==
    IF k > DigestLen THEN TRUE
    ELSE IF a[k] < b[k] THEN TRUE
    ELSE IF a[k] > b[k] THEN FALSE
    ELSE LexLe(a, b, k + 1)

\* The same comparison started at the last byte (little-endian order).
RECURSIVE LexLeFromEnd(_, _, _)
LexLeFromEnd(a, b, k) ==
    IF k < 1 THEN TRUE
    ELSE IF a[k] < b[k] THEN TRUE
    ELSE IF a[k] > b[k] THEN FALSE
    ELSE LexLeFromEnd(a, b, k - 1)

leLittleEndian(a, b) == LexLeFromEnd(a, b, DigestLen)

le(a, b) == LexLe(a, b, 1)

\* hashv(&[hash, pubkey, nonce.to_le_bytes()]) for the round's challenge and identity.
hashv(n) == digestOf[n]

\* u64::saturating_div / saturating_mul on the modelled width.
saturating_div(a, b) == a \div b
saturating_mul(a, b) == Min(a * b, NonceMax)

\* An offset that leaves out the multiplication by the worker's index.
StartNonceIgnoringIndex(i) == saturating_div(NonceMax, threads)

\* let n = u64::MAX.saturating_div(threads).saturating_mul(i);
StartNonce(i) == saturating_mul(saturating_div(NonceMax, threads), i)

\* The initial content of the slot: (KeccakHash::new_from_array([0; 32]), 0).
Placeholder == [digest |-> ZeroDigest, nonce |-> 0]

(***************************************************************************)
(* find_next_hash_par                                                      *)
(***************************************************************************)
SearchInit ==
    /\ threads \in 0 .. MaxThreads
    /\ difficulty \in DigestSamples
    /\ digestOf \in [Nonce -> DigestSamples]
    /\ overflow_checks \in BOOLEAN
    /\ found_solution = FALSE
    /\ solution = Placeholder
    /\ wpc = [i \in Workers |-> "unspawned"]
    /\ nonce = [i \in Workers |-> 0]
    /\ next_hash = [i \in Workers |-> ZeroDigest]
    /\ mainPc = "spawn"
    /\ spawned = 0
    /\ joined = 0
    /\ result = Placeholder
    /\ writers = <<>>
    /\ hashed = [i \in Workers |-> {}]
    /\ incs = [i \in Workers |-> 0]

\* (0..threads).map(|i| std::thread::spawn(..)): worker `spawned` starts at its offset.
Spawn ==
    /\ mainPc = "spawn"
    /\ spawned < threads
    /\ wpc' = [wpc EXCEPT ![spawned] = "loop"]
    /\ nonce' = [nonce EXCEPT ![spawned] = StartNonce(spawned)]
    /\ spawned' = spawned + 1
    /\ UNCHANGED pipelineVars
    /\ UNCHANGED mineVars
    /\ UNCHANGED <<hashed, incs>>
    /\ UNCHANGED <<threads, difficulty, digestOf, overflow_checks, found_solution, solution,
                   next_hash, mainPc, joined, result, writers>>

\* .collect() has produced every handle.
Collect ==
    /\ mainPc = "spawn"
    /\ spawned = threads
    /\ mainPc' = "join"
    /\ UNCHANGED pipelineVars
    /\ UNCHANGED mineVars
    /\ UNCHANGED <<hashed, incs>>
    /\ UNCHANGED <<threads, difficulty, digestOf, overflow_checks, found_solution, solution,
                   wpc, nonce, next_hash, spawned, joined, result, writers>>

\* The periodic read of the flag: `nonce % 10_000 == 0` and found_solution.load().
SeesFlag(i) == nonce[i] % CheckInterval = 0 /\ found_solution

\* The acceptance test `next_hash.le(&difficulty)`.
Qualifies(h) == le(h, difficulty)

\* One pass of the worker's loop body up to its next shared access:
\* hash, periodic flag check, acceptance test, `nonce += 1`.
\* At u64::MAX the increment panics when the build checks overflow and wraps to 0 otherwise.
Iterate(i) ==
    /\ wpc[i] = "loop"
    /\ next_hash' = [next_hash EXCEPT ![i] = hashv(nonce[i])]
    /\ IF SeesFlag(i)
         THEN /\ wpc' = [wpc EXCEPT ![i] = "done"]
              /\ UNCHANGED nonce
         ELSE IF Qualifies(hashv(nonce[i]))
         THEN /\ wpc' = [wpc EXCEPT ![i] = "store"]
              /\ UNCHANGED nonce
         ELSE IF nonce[i] = NonceMax
         THEN IF overflow_checks
                THEN /\ wpc' = [wpc EXCEPT ![i] = "panicked"]
                     /\ UNCHANGED nonce
                ELSE /\ nonce' = [nonce EXCEPT ![i] = 0]
                     /\ UNCHANGED wpc
         ELSE /\ nonce' = [nonce EXCEPT ![i] = nonce[i] + 1]
              /\ UNCHANGED wpc
    /\ hashed' = [hashed EXCEPT ![i] = hashed[i] \cup {nonce[i]}]
    /\ incs' = IF nonce' # nonce
                THEN [incs EXCEPT ![i] = Min(incs[i] + 1, NonceMax + 1)]
                ELSE incs
    /\ UNCHANGED pipelineVars
    /\ UNCHANGED mineVars
    /\ UNCHANGED <<threads, difficulty, digestOf, overflow_checks, found_solution, solution,
                   mainPc, spawned, joined, result, writers>>

\* found_solution.store(true, Relaxed)
StoreFlag(i) ==
    /\ wpc[i] = "store"
    /\ found_solution' = TRUE
    /\ wpc' = [wpc EXCEPT ![i] = "lock"]
    /\ UNCHANGED pipelineVars
    /\ UNCHANGED mineVars
    /\ UNCHANGED <<hashed, incs>>
    /\ UNCHANGED <<threads, difficulty, digestOf, overflow_checks, solution,
                   nonce, next_hash, mainPc, spawned, joined, result, writers>>

\* A write that replaces the digest and keeps the nonce already in the slot.
SlotAfterWriteTorn(i) == [digest |-> next_hash[i], nonce |-> solution.nonce]

\* What a worker holding the lock leaves in the slot: *w_solution = (next_hash, nonce).
SlotAfterWrite(i) == [digest |-> next_hash[i], nonce |-> nonce[i]]

\* let mut w_solution = solution.lock(); *w_solution = (next_hash, nonce); return;
WriteSlot(i) ==
    /\ wpc[i] = "lock"
    /\ solution' = SlotAfterWrite(i)
    /\ writers' = Append(writers, i)
    /\ wpc' = [wpc EXCEPT ![i] = "done"]
    /\ UNCHANGED pipelineVars
    /\ UNCHANGED mineVars
    /\ UNCHANGED <<hashed, incs>>
    /\ UNCHANGED <<threads, difficulty, digestOf, overflow_checks, found_solution,
                   nonce, next_hash, mainPc, spawned, joined, result>>

\* A join that does not wait for the worker.
JoinReadyWithoutWaiting(j) == TRUE

\* JoinHandle::join blocks until worker j has terminated (returned or panicked).
JoinReady(j) == wpc[j] \in {"done", "panicked"}

\* thread_handle.join().unwrap() on the next handle: Ok for a worker that returned,
\* a panic of the caller for a worker that panicked.
Join ==
    /\ mainPc = "join"
    /\ joined < threads
    /\ JoinReady(joined)
    /\ IF wpc[joined] = "panicked"
         THEN /\ mainPc' = "aborted"
              /\ UNCHANGED joined
         ELSE /\ joined' = joined + 1
              /\ UNCHANGED mainPc
    /\ UNCHANGED pipelineVars
    /\ UNCHANGED mineVars
    /\ UNCHANGED <<hashed, incs>>
    /\ UNCHANGED <<threads, difficulty, digestOf, overflow_checks, found_solution, solution,
                   wpc, nonce, next_hash, spawned, result, writers>>

\* let r_solution = solution.lock(); *r_solution
Return ==
    /\ mainPc = "join"
    /\ joined = threads
    /\ result' = solution
    /\ mainPc' = "returned"
    /\ UNCHANGED pipelineVars
    /\ UNCHANGED mineVars
    /\ UNCHANGED <<hashed, incs>>
    /\ UNCHANGED <<threads, difficulty, digestOf, overflow_checks, found_solution, solution,
                   wpc, nonce, next_hash, spawned, joined, writers>>

(***************************************************************************)
(* send_and_confirm                                                        *)
(***************************************************************************)
SIMULATION_RETRIES == 4
GATEWAY_RETRIES == 4
CONFIRM_RETRIES == 4
\* The margin of set_compute_unit_limit(units_consumed as u32 + 1000).
CU_MARGIN == 1000

\* Largest balance.value the transport reports.
MaxBalance == 1
\* Largest units_consumed a simulation reports.
MaxUnits == 1
\* Cap on the simulate calls of one execution (a success without units_consumed
\* changes no counter of simulate_transaction).
MaxSimCalls == 5
\* Stands for u32::MAX, the width of `units_consumed as u32 + 1000`.
U32Max == 2047

\* units_consumed (u64) as reported: small figures, the smallest figure whose sum with the
\* margin exceeds u32::MAX, and the smallest figure that does not fit a u32.
UnitsSamples == (0 .. MaxUnits) \cup {U32Max - CU_MARGIN + 1, U32Max + 1}

\* `units_consumed as u32`: the cast keeps the low 32 bits.
AsU32(u) == u % (U32Max + 1)

\* `a + b` on u32 overflows.
U32AddOverflows(a, b) == a + b > U32Max

\* `a + b` on u32 where the build wraps.
U32WrappingAdd(a, b) == (a + b) % (U32Max + 1)

Signatures == {"sigA", "sigB"}

\* `ixs`: the mining instruction and the tip transfer.
BuiltInstructions == <<"mine", "tip">>

\* ComputeBudgetInstruction::set_compute_unit_limit(units_consumed as u32 + 1000)
cu_budget_ix(units_consumed) ==
    [program |-> "ComputeBudget", limit |-> U32WrappingAdd(AsU32(units_consumed), CU_MARGIN)]

\* Vec::insert(0, ix)
InsertFront(seq, ix) == <<ix>> \o seq

\* Err(ClientError { kind: Custom(..) }) values and the error passed on by `?`.
InsufficientBalance == "Insufficient SOL balance"
SimulationFailed == "Simulation repeatedly failed"
SendFailed == "Exceeded maximum retries for sending transaction"
ConfirmationFailed == "Transaction confirmation failed after repeated attempts"
TransportError == "transport error"

\* What get_signature_statuses can deliver for the signature: a transport error, no
\* status, a status without confirmation level, or one of the three levels.
PollResults == {"error", "absent", "no_level", "processed", "confirmed", "finalized"}

PipelineIdle ==
    /\ ppc = "idle"
    /\ dynamic_cus = FALSE
    /\ skip_confirm = FALSE
    /\ balance = -1
    /\ instructions = BuiltInstructions
    /\ sim_attempts = 0
    /\ attempts = 0
    /\ confirm_attempts = 0
    /\ sent_sig = "none"
    /\ outcome = "none"
    /\ outcome_sig = "none"
    /\ sim_calls = 0
    /\ sim_fails = 0
    /\ sim_exec_errs = 0
    /\ send_calls = 0
    /\ send_errs = 0
    /\ poll_log = <<>>
    /\ sim_units = -1

SearchIdle ==
    /\ difficulty = ZeroDigest
    /\ digestOf = [n \in Nonce |-> ZeroDigest]
    /\ found_solution = FALSE
    /\ solution = Placeholder
    /\ wpc = [i \in Workers |-> "unspawned"]
    /\ nonce = [i \in Workers |-> 0]
    /\ next_hash = [i \in Workers |-> ZeroDigest]
    /\ mainPc = "idle"
    /\ spawned = 0
    /\ joined = 0
    /\ result = Placeholder
    /\ writers = <<>>
    /\ hashed = [i \in Workers |-> {}]
    /\ incs = [i \in Workers |-> 0]

\* Miner::mine is not running.
MineIdle ==
    /\ minePc = "idle"
    /\ searches_in_progress = 0
    /\ submissions_in_progress = 0
    /\ solutions_pending = 0
    /\ reported = "none"
    /\ blockhash_failed = FALSE

PipelineInit ==
    /\ SearchIdle
    /\ MineIdle
    /\ threads = 0
    /\ overflow_checks \in BOOLEAN
    /\ ppc = "balance"
    /\ dynamic_cus \in BOOLEAN
    /\ skip_confirm \in BOOLEAN
    /\ balance = -1
    /\ instructions = BuiltInstructions
    /\ sim_attempts = 0
    /\ attempts = 0
    /\ confirm_attempts = 0
    /\ sent_sig = "none"
    /\ outcome = "none"
    /\ outcome_sig = "none"
    /\ sim_calls = 0
    /\ sim_fails = 0
    /\ sim_exec_errs = 0
    /\ send_calls = 0
    /\ send_errs = 0
    /\ poll_log = <<>>
    /\ sim_units = -1

\* A failure exit that goes back to the send loop when confirmation fails.
FailOrResend(kind) ==
    /\ ppc' = IF kind = ConfirmationFailed THEN "send" ELSE "done"
    /\ outcome' = IF kind = ConfirmationFailed THEN outcome ELSE kind
    /\ outcome_sig' = "none"

\* return Err(..) / a `?` that passes an error on.
Fail(kind) ==
    /\ ppc' = "done"
    /\ outcome' = kind
    /\ outcome_sig' = "none"

\* return Ok(sig)
Succeed(sig) ==
    /\ ppc' = "done"
    /\ outcome' = "Ok"
    /\ outcome_sig' = sig

\* A guard that lets a balance of 0 pass.
BalanceInsufficientIgnoringZero(b) == b < 0

\* if balance.value <= 0
BalanceInsufficient(b) == b <= 0

\* get_balance_with_commitment(..).await? and the balance guard.
GetBalance ==
    /\ ppc = "balance"
    /\ \/ /\ Fail(TransportError)
          /\ UNCHANGED balance
       \/ \E b \in 0 .. MaxBalance :
             /\ balance' = b
             /\ IF BalanceInsufficient(b)
                  THEN Fail(InsufficientBalance)
                  ELSE /\ ppc' = "blockhash"
                       /\ UNCHANGED <<outcome, outcome_sig>>
    /\ UNCHANGED sim_units
    /\ UNCHANGED searchVars
    /\ UNCHANGED mineVars
    /\ UNCHANGED <<dynamic_cus, skip_confirm, instructions, sim_attempts, attempts,
                   confirm_attempts, sent_sig, sim_calls, sim_fails, sim_exec_errs,
                   send_calls, send_errs, poll_log>>

\* get_latest_blockhash_with_commitment(..).await?, Transaction::new_with_payer and
\* `if dynamic_cus`.
GetBlockhash ==
    /\ ppc = "blockhash"
    /\ \/ Fail(TransportError)
       \/ /\ ppc' = IF dynamic_cus THEN "simulate" ELSE "send"
          /\ UNCHANGED <<outcome, outcome_sig>>
    /\ UNCHANGED sim_units
    /\ UNCHANGED searchVars
    /\ UNCHANGED mineVars
    /\ UNCHANGED <<dynamic_cus, skip_confirm, balance, instructions, sim_attempts, attempts,
                   confirm_attempts, sent_sig, sim_calls, sim_fails, sim_exec_errs,
                   send_calls, send_errs, poll_log>>

\* while *sim_attempts < SIMULATION_RETRIES
SimLoopContinues(a) == a < SIMULATION_RETRIES

\* One pass of simulate_transaction's loop: the simulate call and the match on its result.
\* Leaving the loop returns Ok(()) and the caller goes on to submit_transaction.
Simulate ==
    /\ ppc = "simulate"
    /\ sim_calls < MaxSimCalls
    /\ sim_calls' = sim_calls + 1
    /\ \/ \* Ok, err.is_none(), Some(units_consumed); the addition panics on overflow
          \* when the build checks overflow
          \E u \in UnitsSamples :
             /\ sim_units' = u
             /\ IF overflow_checks /\ U32AddOverflows(AsU32(u), CU_MARGIN)
                  THEN /\ ppc' = "panicked"
                       /\ UNCHANGED instructions
                  ELSE /\ instructions' = InsertFront(instructions, cu_budget_ix(u))
                       /\ ppc' = "send"
             /\ UNCHANGED <<sim_attempts, sim_fails, sim_exec_errs, outcome, outcome_sig>>
       \/ \* Ok, err.is_none(), units_consumed is None: nothing is counted
          /\ UNCHANGED <<instructions, ppc, sim_attempts, sim_fails, sim_exec_errs,
                         outcome, outcome_sig, sim_units>>
       \/ \* Ok with an execution error
          /\ sim_attempts' = sim_attempts + 1
          /\ sim_fails' = sim_fails + 1
          /\ sim_exec_errs' = sim_exec_errs + 1
          /\ ppc' = IF SimLoopContinues(sim_attempts + 1) THEN "simulate" ELSE "send"
          /\ UNCHANGED <<instructions, outcome, outcome_sig, sim_units>>
       \/ \* Err(e)
          /\ sim_attempts' = sim_attempts + 1
          /\ sim_fails' = sim_fails + 1
          /\ IF sim_attempts + 1 >= SIMULATION_RETRIES
               THEN Fail(SimulationFailed)
               ELSE UNCHANGED <<ppc, outcome, outcome_sig>>
          /\ UNCHANGED <<instructions, sim_exec_errs, sim_units>>
    /\ UNCHANGED searchVars
    /\ UNCHANGED mineVars
    /\ UNCHANGED <<dynamic_cus, skip_confirm, balance, attempts, confirm_attempts, sent_sig,
                   send_calls, send_errs, poll_log>>

\* A loop condition that allows one more pass.
SendLoopContinuesOneMore(a) == a <= GATEWAY_RETRIES

\* while attempts < GATEWAY_RETRIES
SendLoopContinues(a) == a < GATEWAY_RETRIES

\* A send that always goes on to confirm_transaction.
ConfirmationSkippedNever == FALSE

\* if skip_confirm { return Ok(sig) } else { return confirm_transaction(..) }
ConfirmationSkipped == skip_confirm

\* One pass of submit_transaction's loop: the send call and the match on its response.
Send ==
    /\ ppc = "send"
    /\ send_calls' = send_calls + 1
    /\ \/ \* Ok(sig)
          \E sig \in Signatures :
             /\ sent_sig' = sig
             /\ IF ConfirmationSkipped
                  THEN Succeed(sig)
                  ELSE /\ ppc' = "confirm"
                       /\ UNCHANGED <<outcome, outcome_sig>>
             /\ UNCHANGED <<attempts, send_errs>>
       \/ \* Err(e)
          /\ attempts' = attempts + 1
          /\ send_errs' = send_errs + 1
          /\ IF SendLoopContinues(attempts + 1)
               THEN UNCHANGED <<ppc, outcome, outcome_sig>>
               ELSE Fail(SendFailed)
          /\ UNCHANGED sent_sig
    /\ UNCHANGED sim_units
    /\ UNCHANGED searchVars
    /\ UNCHANGED mineVars
    /\ UNCHANGED <<dynamic_cus, skip_confirm, balance, instructions, sim_attempts,
                   confirm_attempts, sim_calls, sim_fails, sim_exec_errs, poll_log>>

\* A match arm that accepts Confirmed alone.
ReachedConfirmedOnlyConfirmed(r) == r = "confirmed"

\* Some(Confirmed) | Some(Finalized)
ReachedConfirmed(r) == r \in {"confirmed", "finalized"}

\* while attempts < CONFIRM_RETRIES
ConfirmLoopContinues(a) == a < CONFIRM_RETRIES

\* One pass of confirm_transaction's loop: the status poll and the match on its result.
Poll ==
    /\ ppc = "confirm"
    /\ \E r \in PollResults :
          /\ poll_log' = Append(poll_log, r)
          /\ IF r = "error"
               THEN /\ Fail(TransportError)
                    /\ UNCHANGED confirm_attempts
               ELSE IF ReachedConfirmed(r)
               THEN /\ Succeed(sent_sig)
                    /\ UNCHANGED confirm_attempts
               ELSE /\ confirm_attempts' = confirm_attempts + 1
                    /\ IF ConfirmLoopContinues(confirm_attempts + 1)
                         THEN UNCHANGED <<ppc, outcome, outcome_sig>>
                         ELSE Fail(ConfirmationFailed)
    /\ UNCHANGED sim_units
    /\ UNCHANGED searchVars
    /\ UNCHANGED mineVars
    /\ UNCHANGED <<dynamic_cus, skip_confirm, balance, instructions, sim_attempts, attempts,
                   sent_sig, sim_calls, sim_fails, sim_exec_errs, send_calls, send_errs>>

PipelineNext ==
    \/ GetBalance
    \/ GetBlockhash
    \/ Simulate
    \/ Send
    \/ Poll

PipelineSpec == PipelineInit /\ [][PipelineNext]_vars

(***************************************************************************)
(* Specification of one call of find_next_hash_par                         *)
(***************************************************************************)
SearchStart == SearchInit /\ PipelineIdle /\ MineIdle

SearchNext ==
    \/ Spawn
    \/ Collect
    \/ \E i \in Workers : Iterate(i)
    \/ \E i \in Workers : StoreFlag(i)
    \/ \E i \in Workers : WriteSlot(i)
    \/ Join
    \/ Return

SearchSpec == SearchStart /\ [][SearchNext]_vars

(***************************************************************************)
(* Miner::mine: the loop of rounds                                         *)
(***************************************************************************)
\* The lines printed by the match on the submission's result.
SubmittedLine == "Transaction submitted successfully"
FailedLine == "Failed to submit transaction"

\* while let Ok(current_hash) = self.rpc_client.get_latest_blockhash().await
GetLatestBlockhash ==
    /\ minePc = "head"
    /\ \/ \* Ok(current_hash): the loop body runs
          /\ minePc' = "fetch"
          /\ UNCHANGED blockhash_failed
       \/ \* Err(_): the loop ends and mine returns
          /\ minePc' = "exited"
          /\ blockhash_failed' = TRUE
    /\ UNCHANGED <<searches_in_progress, submissions_in_progress, solutions_pending, reported>>
    /\ UNCHANGED searchVars
    /\ UNCHANGED pipelineVars

\* Fetch of treasury and proof, then the call find_next_hash_par(proof.hash,
\* treasury.difficulty, threads): the round's challenge and difficulty are whatever the
\* accounts hold, and the callee starts with a fresh flag, slot and worker set.
StartSearch ==
    /\ minePc = "fetch"
    /\ difficulty' \in DigestSamples
    /\ digestOf' \in [Nonce -> DigestSamples]
    /\ found_solution' = FALSE
    /\ solution' = Placeholder
    /\ wpc' = [i \in Workers |-> "unspawned"]
    /\ nonce' = [i \in Workers |-> 0]
    /\ next_hash' = [i \in Workers |-> ZeroDigest]
    /\ mainPc' = "spawn"
    /\ spawned' = 0
    /\ joined' = 0
    /\ result' = Placeholder
    /\ writers' = <<>>
    /\ hashed' = [i \in Workers |-> {}]
    /\ incs' = [i \in Workers |-> 0]
    /\ searches_in_progress' = searches_in_progress + 1
    /\ minePc' = "search"
    /\ UNCHANGED <<threads, overflow_checks>>
    /\ UNCHANGED <<submissions_in_progress, solutions_pending, reported, blockhash_failed>>
    /\ UNCHANGED pipelineVars

\* let (next_hash, nonce) = self.find_next_hash_par(..): the call has returned and the
\* mining and tip instructions are built from the solution. The callee's flag, slot and
\* workers are gone, and proof, treasury and the solution are not read again.
SearchReturns ==
    /\ minePc = "search"
    /\ mainPc = "returned"
    /\ difficulty' = ZeroDigest
    /\ digestOf' = [n \in Nonce |-> ZeroDigest]
    /\ found_solution' = FALSE
    /\ solution' = Placeholder
    /\ wpc' = [i \in Workers |-> "unspawned"]
    /\ nonce' = [i \in Workers |-> 0]
    /\ next_hash' = [i \in Workers |-> ZeroDigest]
    /\ mainPc' = "idle"
    /\ spawned' = 0
    /\ joined' = 0
    /\ result' = Placeholder
    /\ writers' = <<>>
    /\ hashed' = [i \in Workers |-> {}]
    /\ incs' = [i \in Workers |-> 0]
    /\ searches_in_progress' = searches_in_progress - 1
    /\ solutions_pending' = solutions_pending + 1
    /\ minePc' = "submit"
    /\ UNCHANGED <<threads, overflow_checks>>
    /\ UNCHANGED <<submissions_in_progress, reported, blockhash_failed>>
    /\ UNCHANGED pipelineVars

\* The panic of join().unwrap() inside find_next_hash_par unwinds mine.
SearchPanics ==
    /\ minePc = "search"
    /\ mainPc = "aborted"
    /\ minePc' = "panicked"
    /\ UNCHANGED <<searches_in_progress, submissions_in_progress, solutions_pending,
                   reported, blockhash_failed>>
    /\ UNCHANGED searchVars
    /\ UNCHANGED pipelineVars

\* A loop that issues the submission and goes on without waiting for its result.
AwaitsSubmissionNever == FALSE

\* self.rpc_client.send_and_confirm_transaction(&mining_tx).await
AwaitsSubmission == TRUE

\* The submission is issued.
Submit ==
    /\ minePc = "submit"
    /\ submissions_in_progress' = submissions_in_progress + 1
    /\ minePc' = IF AwaitsSubmission THEN "await" ELSE "head"
    /\ UNCHANGED <<searches_in_progress, solutions_pending, reported, blockhash_failed>>
    /\ UNCHANGED searchVars
    /\ UNCHANGED pipelineVars

\* A match whose Err arm leaves the loop.
AfterSubmitLeavesOnErr(r) == IF r = "Err" THEN "exited" ELSE "head"

\* Both arms of the match print and fall through to the end of the loop body.
AfterSubmit(r) == "head"

\* The submission delivers its result: Ok(signature) or Err(e); the match prints a line.
SubmitReturns ==
    /\ submissions_in_progress > 0
    /\ \E r \in {"Ok", "Err"} :
          /\ reported' = IF r = "Ok" THEN SubmittedLine ELSE FailedLine
          /\ minePc' = IF minePc = "await" THEN AfterSubmit(r) ELSE minePc
    /\ submissions_in_progress' = submissions_in_progress - 1
    /\ solutions_pending' = solutions_pending - 1
    /\ UNCHANGED <<searches_in_progress, blockhash_failed>>
    /\ UNCHANGED searchVars
    /\ UNCHANGED pipelineVars

\* mine(threads) after register(): at the head of the loop, nothing searched or submitted.
MineInit ==
    /\ SearchIdle
    /\ PipelineIdle
    /\ threads \in 0 .. MaxThreads
    /\ overflow_checks \in BOOLEAN
    /\ minePc = "head"
    /\ searches_in_progress = 0
    /\ submissions_in_progress = 0
    /\ solutions_pending = 0
    /\ reported = "none"
    /\ blockhash_failed = FALSE

MineNext ==
    \/ GetLatestBlockhash
    \/ StartSearch
    \/ Spawn
    \/ Collect
    \/ \E i \in Workers : Iterate(i)
    \/ \E i \in Workers : StoreFlag(i)
    \/ \E i \in Workers : WriteSlot(i)
    \/ Join
    \/ Return
    \/ SearchReturns
    \/ SearchPanics
    \/ Submit
    \/ SubmitReturns

MineSpec == MineInit /\ [][MineNext]_vars

(***************************************************************************)
(* Properties of find_next_hash_par (checked under SearchSpec)             *)
(***************************************************************************)
\* a <= b for digests read as unsigned big-endian integers: equal, or smaller at the
\* most significant byte where they differ.
BigEndianLeq(a, b) ==
    \/ a = b
    \/ \E k \in 1 .. DigestLen :
          /\ a[k] < b[k]
          /\ \A j \in 1 .. (k - 1) : a[j] = b[j]

\* Every worker of the round has been spawned and has returned.
WorkersCompleted ==
    /\ spawned = threads
    /\ \A i \in Workers : i < threads => wpc[i] = "done"

\* The pair worker i wrote when it held the lock (its locals do not change afterwards).
PairOf(i) == [digest |-> next_hash[i], nonce |-> nonce[i]]

\* C1: for every worker_count >= 1 and every interleaving, the pair returned by
\* find_next_hash_par has digest <= difficulty in unsigned big-endian order.
C1_ReturnedDigestMeetsDifficulty ==
    (mainPc = "returned" /\ threads >= 1) => BigEndianLeq(result.digest, difficulty)

C1_Witness ==
    /\ mainPc = "returned"
    /\ threads >= 2
    /\ result.digest = LowDigest
    /\ difficulty = LowDigest
    /\ \E n \in Nonce : digestOf[n] = HighDigest

\* C2 (as claimed): the first worker to acquire the result lock fixes the slot's value;
\* a later acquisition by another qualifying worker leaves the slot unchanged.
C2_FirstWriterFixesSlot ==
    writers # <<>> => solution = PairOf(writers[1])

\* C3: once every worker has completed, the slot holds one pair written as a whole by one
\* of the workers that took the lock (digest and nonce of the same iteration), and that
\* pair meets the difficulty bound.
C3_RetainedPairIsOneWorkersPair ==
    (threads >= 1 /\ WorkersCompleted) =>
        /\ writers # <<>>
        /\ \E k \in 1 .. Len(writers) : solution = PairOf(writers[k])
        /\ solution.digest = hashv(solution.nonce)
        /\ BigEndianLeq(solution.digest, difficulty)

C3_Witness ==
    /\ WorkersCompleted
    /\ Len(writers) >= 2
    /\ PairOf(writers[1]) # PairOf(writers[2])
    /\ difficulty # HighDigest

\* C4 (as claimed, in the form a finite run refutes): whenever a worker has found a
\* qualifying nonce and set the flag, the call goes on to return; it is never left in
\* the state where joining the workers has aborted it.
C4_ReturnsOnceFlagSet ==
    found_solution => mainPc # "aborted"

(***************************************************************************)
(* Properties of send_and_confirm (checked under PipelineSpec)             *)
(***************************************************************************)
\* C5: with a balance of 0 the call returns the insufficient-balance error without any
\* simulate, send or poll call; simulate and send happen only after a positive balance.
C5_BalanceGuard ==
    /\ balance = 0 =>
          /\ ppc = "done"
          /\ outcome = InsufficientBalance
          /\ sim_calls = 0
          /\ send_calls = 0
          /\ poll_log = <<>>
    /\ (sim_calls > 0 \/ send_calls > 0) => balance > 0

C5_Witness ==
    /\ balance = 0
    /\ ppc = "done"
    /\ outcome = InsufficientBalance

\* C6 (as claimed): with simulation enabled, when all 4 simulate attempts failed (execution
\* or transport errors in any mix) the call ends in SimulationFailed and nothing is sent.
C6_ExhaustedSimulationNeverSent ==
    (dynamic_cus /\ sim_calls = 4 /\ sim_fails = 4) =>
        /\ send_calls = 0
        /\ ppc = "done" => outcome = SimulationFailed

\* C7: k < 4 failed sends followed by a success make exactly k + 1 send calls and reach
\* Sent; 4 failed sends end in SendFailed after exactly 4 send calls, never a 5th.
C7_SendRetryBound ==
    /\ send_calls <= 4
    /\ sent_sig # "none" =>
          /\ send_errs < 4
          /\ send_calls = send_errs + 1
          /\ ppc \in {"confirm", "done"}
          /\ outcome # SendFailed
    /\ send_errs = 4 =>
          /\ ppc = "done"
          /\ outcome = SendFailed
    /\ outcome = SendFailed =>
          /\ send_calls = 4
          /\ send_errs = 4

C7_Witness ==
    /\ sent_sig # "none"
    /\ send_errs = 3
    /\ send_calls = 4

\* A poll that delivered no status or a level weaker than confirmed.
WeakPoll(r) == r \in {"absent", "no_level", "processed"}

AllPollsWeak == \A k \in 1 .. Len(poll_log) : WeakPoll(poll_log[k])

\* C8: polls happen only after a successful send with confirmation enabled; a poll that
\* returns confirmed or finalized ends the call in Confirmed; a poll that returns no status
\* or a weaker level counts one attempt and polling continues; 4 such polls end the call
\* in ConfirmationTimedOut after exactly 4 polls.
C8_ConfirmationPolling ==
    /\ Len(poll_log) <= 4
    /\ poll_log # <<>> => (sent_sig # "none" /\ ~skip_confirm)
    /\ (poll_log # <<>> /\ poll_log[Len(poll_log)] \in {"confirmed", "finalized"}) =>
          /\ ppc = "done"
          /\ outcome = "Ok"
          /\ outcome_sig = sent_sig
    /\ (AllPollsWeak /\ Len(poll_log) \in 1 .. 3) =>
          /\ ppc = "confirm"
          /\ confirm_attempts = Len(poll_log)
          /\ outcome = "none"
    /\ (AllPollsWeak /\ Len(poll_log) = 4) =>
          /\ ppc = "done"
          /\ outcome = ConfirmationFailed

C8_Witness ==
    /\ poll_log = <<"processed", "processed", "processed", "confirmed">>
    /\ outcome = "Ok"

\* C9: with skip_confirm the first successful send ends the call with Ok carrying that
\* send's signature, and no status poll is ever issued.
C9_SkipConfirm ==
    skip_confirm =>
        /\ poll_log = <<>>
        /\ sent_sig # "none" =>
              /\ ppc = "done"
              /\ outcome = "Ok"
              /\ outcome_sig = sent_sig
              /\ send_calls = send_errs + 1

C9_Witness ==
    /\ skip_confirm
    /\ sent_sig # "none"
    /\ send_errs >= 1
    /\ outcome = "Ok"

\* C10 (as claimed): once a stage has been entered, a failure is reported to the caller
\* only after some stage has used up its 4 attempts; earlier errors are retried.
C10_FailureOnlyAfterExhaustion ==
    (ppc = "done" /\ outcome # "Ok" /\ sim_calls + send_calls > 0) =>
        \/ sim_fails >= 4
        \/ send_errs >= 4
        \/ Len(poll_log) >= 4

(***************************************************************************)
(* Further properties of send_and_confirm (PipelineSpec)                   *)
(***************************************************************************)
\* C11 (as claimed): whatever the transport returns, one call makes at most 4 simulate
\* calls, at most 4 send calls and at most 4 status polls.
C11_FixedCallBudget ==
    /\ sim_calls <= 4
    /\ send_calls <= 4
    /\ Len(poll_log) <= 4

(***************************************************************************)
(* Further properties of find_next_hash_par (SearchSpec)                   *)
(***************************************************************************)
\* A worker that has been spawned and has neither returned nor panicked.
Running(i) == wpc[i] \in {"loop", "store", "lock"}

\* C12: the call returns, and the slot has been read for the return value, only when
\* every worker of the round has been spawned and has terminated; no worker is running
\* in a state where the call has returned.
C12_NoWorkerOutlivesReturn ==
    mainPc = "returned" =>
        /\ spawned = threads
        /\ joined = threads
        /\ \A i \in Workers : ~Running(i)
        /\ \A i \in Workers : i < threads => wpc[i] = "done"
        /\ result = solution

C12_Witness ==
    /\ mainPc = "returned"
    /\ threads >= 2
    /\ Len(writers) >= 1
    /\ Len(writers) < threads

\* C18 (as claimed): no worker terminates abnormally, also when its nonce reaches the
\* maximum value, and the call never aborts while joining its workers.
C18_NoFailurePath ==
    /\ \A i \in Workers : wpc[i] # "panicked"
    /\ mainPc # "aborted"

\* C19 (as claimed): whatever `threads` is, 0 included, the returned value is a pair that a
\* worker of the round wrote to the slot, and its digest is the hash of its nonce.
C19_ReturnedPairWasWritten ==
    mainPc = "returned" =>
        /\ writers # <<>>
        /\ \E k \in 1 .. Len(writers) : result = PairOf(writers[k])
        /\ result.digest = hashv(result.nonce)

\* floor(U64_MAX / worker_count)
Stride == NonceMax \div threads

\* Worker i has been spawned.
Spawned(i) == i < threads /\ wpc[i] # "unspawned"

\* Worker i started at i * Stride and has advanced by 1 per `nonce += 1` (in the nonce's
\* unsigned arithmetic); the starting offsets of distinct workers differ.
StridedScan ==
    /\ \A i \in Workers :
          (Spawned(i) /\ incs[i] <= NonceMax) =>
              nonce[i] = (i * Stride + incs[i]) % (NonceMax + 1)
    /\ \A i, j \in Workers :
          (i < threads /\ j < threads /\ i # j) => i * Stride # j * Stride

\* C17 (as claimed): strided start, advance by 1, distinct offsets, and no nonce is hashed
\* by two different workers of the round.
C17_NoNonceHashedTwice ==
    /\ StridedScan
    /\ \A i, j \in Workers : i # j => hashed[i] \cap hashed[j] = {}

\* C17 (amended): strided start, advance by 1, distinct offsets; a nonce is hashed by two
\* different workers only when one of them has incremented its nonce at least Stride
\* times, that is, has scanned on into another worker's range.
C17_OverlapOnlyAfterStride ==
    /\ StridedScan
    /\ \A i, j \in Workers :
          (i # j /\ hashed[i] \cap hashed[j] # {}) =>
              (incs[i] >= Stride \/ incs[j] >= Stride)

C17_Witness ==
    /\ threads >= 2
    /\ \E i, j \in Workers : i # j /\ hashed[i] \cap hashed[j] # {}

\* C15 (as claimed): with simulation enabled no send call is issued before a simulate call
\* has returned without error; no status poll is issued before a send call has succeeded;
\* once a terminal outcome is reached no simulate, send or poll call follows.
C15_PipelineOrder ==
    [][ /\ (dynamic_cus /\ send_calls' > send_calls) => sim_calls > sim_fails
        /\ Len(poll_log') > Len(poll_log) => sent_sig # "none"
        /\ ppc = "done" => UNCHANGED <<sim_calls, send_calls, poll_log>> ]_vars

\* The instruction sequence with one cost-ceiling instruction of limit u + 1000 in front.
WithCeiling(u) == <<[program |-> "ComputeBudget", limit |-> u + CU_MARGIN]>> \o BuiltInstructions

\* C16 (as claimed): the instruction sequence is the built one until a simulate call
\* succeeds with a usage figure u, and from then on the built one with a single
\* cost-ceiling instruction of limit u + 1000 at index 0.
C16_OnlyCeilingInserted ==
    /\ sim_units = -1 => instructions = BuiltInstructions
    /\ sim_units # -1 =>
          /\ Len(instructions) = Len(BuiltInstructions) + 1
          /\ instructions = WithCeiling(sim_units)

\* C20: after a send call has succeeded no further send call is issued, whatever the
\* outcome of confirmation (confirmed, timed out after 4 polls, or a poll error).
C20_BroadcastAtMostOnce ==
    [][sent_sig # "none" => send_calls' = send_calls]_vars

\* C20 witness: a submission that was sent and whose confirmation failed after 4 polls.
C20_Witness ==
    /\ sent_sig # "none"
    /\ ppc = "done"
    /\ outcome = ConfirmationFailed
    /\ Len(poll_log) = 4

(***************************************************************************)
(* Properties of Miner::mine (MineSpec)                                    *)
(***************************************************************************)
\* C13: rounds are strictly sequential: at most one search and at most one submission is
\* in progress, never both, and while a search is in progress (workers being spawned,
\* running or joined) every earlier solution's submission has delivered its result.
C13_RoundsSequential ==
    /\ searches_in_progress <= 1
    /\ submissions_in_progress <= 1
    /\ searches_in_progress + submissions_in_progress <= 1
    /\ searches_in_progress = 1 => solutions_pending = 0
    /\ mainPc \in {"spawn", "join"} => searches_in_progress = 1
    /\ submissions_in_progress = 1 => \A i \in Workers : ~Running(i)

\* C13 witness: the search of a later round is running, after the previous round's
\* submission has delivered its result.
C13_Witness ==
    /\ reported # "none"
    /\ searches_in_progress = 1
    /\ mainPc = "join"
    /\ \E i \in Workers : Running(i)

\* C14: mine ends only by a failed blockhash fetch at the head of the loop or by the
\* panic of a search, never by the result of a submission: while the latest report is
\* the failure line the loop is at its head, fetching, searching, submitting or waiting.
C14_FailedSubmissionDoesNotEndMining ==
    /\ minePc = "exited" => blockhash_failed
    /\ minePc = "panicked" => mainPc = "aborted"
    /\ (reported = FailedLine /\ ~blockhash_failed /\ mainPc # "aborted") =>
          minePc \in {"head", "fetch", "search", "submit", "await"}

\* C14 witness: after a failed submission was reported, the next round's search is running.
C14_Witness ==
    /\ reported = FailedLine
    /\ minePc = "search"
    /\ mainPc = "join"
    /\ \E i \in Workers : Running(i)

====
